---- MODULE Spec2Model ----
(***************************************************************************)
(* Model of yearn/vaults_v2.py: the event-sourced Registry of v2 vaults.   *)
(* The Registry replays the registry contract's historical events in       *)
(* __init__, then a background thread (watch_events) drains the logs of    *)
(* every newly confirmed block height.  Readers run concurrently with the  *)
(* watch thread once the constructor has returned.                         *)
(***************************************************************************)
EXTENDS Integers, Sequences, FiniteSets, TLC

\* ---------------------------------------------------------------- bounds
MaxHeight == 22
MaxEvents == 3

\* ------------------------------------------------------------- constants
height_buffer == 10
NoBlock == -1
None == "None"
NoError == "NoError"

Addresses == {"0xA", "0xB"}
Versions == {"0.3.0", "0.3.1"}
Templates == {"tX", "tY"}
Tags == {"red", "blue"}
Governors == {"gov1"}

KnownEvents == {"NewGovernance", "NewRelease", "NewVault", "NewExperimentalVault", "VaultTagged"}
CreationEvents == {"NewVault", "NewExperimentalVault"}

VARIABLES chain, height, pc, wpc, governance, api_versions, vaults, names, tags,
          last_block, events, batch, idx, mid, block, from_block, error, applied, observed,
          dvault, info

tables == <<governance, api_versions, vaults, names, tags>>
vars == <<chain, height, pc, wpc, governance, api_versions, vaults, names, tags,
          last_block, events, batch, idx, mid, block, from_block, error, applied,
          observed, dvault, info>>

\* ------------------------------------------------- decoded events (logs)
NewGovernance(g) == [name |-> "NewGovernance", governance |-> g]
NewRelease(v, t) == [name |-> "NewRelease", api_version |-> v, template |-> t]
NewVault(v, a) == [name |-> "NewVault", api_version |-> v, vault |-> a]
NewExperimentalVault(v, a) == [name |-> "NewExperimentalVault", api_version |-> v, vault |-> a]
VaultTagged(a, t) == [name |-> "VaultTagged", vault |-> a, tag |-> t]
OtherEvent == [name |-> "NewOwner"]

Payloads ==
    {NewGovernance(g) : g \in Governors}
    \cup {NewRelease("0.3.0", t) : t \in Templates}
    \cup {NewRelease("0.3.1", "tX")}
    \cup {NewVault(v, "0xA") : v \in Versions}
    \cup {NewExperimentalVault("0.3.1", "0xB")}
    \cup {VaultTagged("0xA", t) : t \in Tags}
    \cup {VaultTagged("0xB", "red")}
    \cup {OtherEvent}

LivePayloads ==
    {NewRelease("0.3.0", "tX"), NewVault("0.3.0", "0xA"), OtherEvent}

\* the position of a log inside its block
LogIndex(bs, i) == Cardinality({j \in 1..(i - 1) : bs[j] = bs[i]})

MkChain(ps, bs) ==
    [i \in DOMAIN ps |-> ps[i] @@ [block_number |-> bs[i], log_index |-> LogIndex(bs, i)]]

Ascending(bs) == \A i \in DOMAIN bs : \A j \in DOMAIN bs : i < j => bs[i] <= bs[j]

\* the logs sit in consecutive blocks right after deployment, any payloads
DenseChain(c) ==
    \E n \in 0..MaxEvents : \E ps \in [1..n -> Payloads] :
        c = MkChain(ps, [i \in 1..n |-> i])

\* the last block whose confirmation the model can follow
MaxBlock == MaxHeight - height_buffer

\* two logs of few payloads, in any two blocks
SparseChain(c) ==
    \E ps \in [1..2 -> LivePayloads] :
        \E bs \in {b \in [1..2 -> 1..MaxBlock] : Ascending(b)} :
            c = MkChain(ps, bs)

\* the tip at which the last log of the chain is confirmed
LastConfirmation(c) == IF c = <<>> THEN 0 ELSE c[Len(c)].block_number + height_buffer

EventId(evt) == <<evt.block_number, evt.log_index>>

\* --------------------------------------------------------- collaborators
SelectRange(s, lo, hi) ==
    LET F[i \in 0..Len(s)] ==
            IF i = 0 THEN <<>>
            ELSE IF s[i].block_number >= lo /\ s[i].block_number <= hi
                 THEN Append(F[i - 1], s[i])
                 ELSE F[i - 1]
    IN F[Len(s)]

\* yearn.events.fetch_events: the full historical log at the current tip
fetch_events(c, h) == SelectRange(c, 0, h)

\* yearn.events.get_logs + decode_logs: the logs of the blocks lo..hi
get_logs(c, lo, hi) == SelectRange(c, lo, hi)

\* brownie Contract(address): a handle bound to the ABI published for the address
Contract(address) == [address |-> address, abi |-> "abi(" \o address \o ")"]

\* brownie Contract.from_abi(name, address, abi)
from_abi(n, address, abi) == [name |-> n, address |-> address, abi |-> abi]

\* vault.symbol(): the on-chain symbol of a vault
symbol(a) == IF a = "0xA" THEN "yvDAI" ELSE "yvUSDC"

\* ------------------------------------------------------- Registry tables
EmptyMap == <<>>

Put(f, k, v) == [x \in (DOMAIN f) \cup {k} |-> IF x = k THEN v ELSE f[x]]

Registry == [governance |-> governance, api_versions |-> api_versions,
             vaults |-> vaults, names |-> names, tags |-> tags]

EmptyRegistry == [governance |-> None, api_versions |-> EmptyMap,
                  vaults |-> EmptyMap, names |-> EmptyMap, tags |-> EmptyMap]

\* a display name without the api_version
DisplayNameSymbolOnly(evt) == symbol(evt.vault)

\* f'{vault.symbol()} {evt["api_version"]}'
DisplayName(evt) == symbol(evt.vault) \o " " \o evt.api_version

\* f'Vault v{evt["api_version"]}'
ContractName(evt) == "Vault v" \o evt.api_version

\* the outcome of one pass of the loop body of process_events, up to and
\* including the store into self.vaults: the tables, the exception raised, and
\* mid, which tells that the store into self.names is pending
Outcome(s, err, m) == [s |-> s, err |-> err, mid |-> m]

\* if evt.name == 'NewGovernance'
OnNewGovernance(s, evt) ==
    Outcome([s EXCEPT !.governance = evt.governance], NoError, FALSE)

\* a release that also rebinds the vaults created under its api_version
OnNewReleaseRebinds(s, evt) ==
    Outcome([s EXCEPT !.api_versions = Put(@, evt.api_version, Contract(evt.template)),
                      !.vaults = [a \in DOMAIN @ |->
                                    IF @[a].name = "Vault v" \o evt.api_version
                                    THEN [@[a] EXCEPT !.abi = Contract(evt.template).abi]
                                    ELSE @[a]]],
            NoError, FALSE)

\* elif evt.name == 'NewRelease'
OnNewRelease(s, evt) ==
    Outcome([s EXCEPT !.api_versions = Put(@, evt.api_version, Contract(evt.template))],
            NoError, FALSE)

\* a creation that does not look the address up in self.vaults first
OnNewVaultNoCheck(s, evt) ==
    IF evt.api_version \notin DOMAIN s.api_versions
    THEN Outcome(s, "KeyError", FALSE)
    ELSE Outcome([s EXCEPT !.vaults = Put(@, evt.vault,
                      from_abi(ContractName(evt), evt.vault,
                               s.api_versions[evt.api_version].abi))],
                 NoError, TRUE)

\* a creation that binds no ABI when the release is missing, raising nothing
OnNewVaultNoRelease(s, evt) ==
    IF evt.vault \in DOMAIN s.vaults
    THEN Outcome(s, NoError, FALSE)
    ELSE Outcome([s EXCEPT !.vaults = Put(@, evt.vault,
                      from_abi(ContractName(evt), evt.vault,
                               IF evt.api_version \in DOMAIN s.api_versions
                               THEN s.api_versions[evt.api_version].abi
                               ELSE None))],
                 NoError, TRUE)

\* elif evt.name in ['NewVault', 'NewExperimentalVault'], up to self.vaults[...] = vault
OnNewVault(s, evt) ==
    IF evt.vault \in DOMAIN s.vaults
    THEN Outcome(s, NoError, FALSE)
    ELSE IF evt.api_version \notin DOMAIN s.api_versions
    THEN Outcome(s, "KeyError", FALSE)
    ELSE Outcome([s EXCEPT !.vaults = Put(@, evt.vault,
                      from_abi(ContractName(evt), evt.vault,
                               s.api_versions[evt.api_version].abi))],
                 NoError, TRUE)

\* a tag that is stored only for an address that is in self.vaults
OnVaultTaggedKnownOnly(s, evt) ==
    IF evt.vault \in DOMAIN s.vaults
    THEN Outcome([s EXCEPT !.tags = Put(@, evt.vault, evt.tag)], NoError, FALSE)
    ELSE Outcome(s, NoError, FALSE)

\* a tag that is stored only when the address has no tag yet
OnVaultTaggedFirstWins(s, evt) ==
    IF evt.vault \in DOMAIN s.tags
    THEN Outcome(s, NoError, FALSE)
    ELSE Outcome([s EXCEPT !.tags = Put(@, evt.vault, evt.tag)], NoError, FALSE)

\* elif evt.name == 'VaultTagged'
OnVaultTagged(s, evt) ==
    Outcome([s EXCEPT !.tags = Put(@, evt.vault, evt.tag)], NoError, FALSE)

\* an unknown event that is passed over
OnOtherSkip(s, evt) == Outcome(s, NoError, FALSE)

\* else: raise UnknownEvent(evt.name)
OnOther(s, evt) == Outcome(s, "UnknownEvent", FALSE)

\* process_events: the dispatch on evt.name
ApplyHead(s, evt) ==
    IF evt.name = "NewGovernance" THEN OnNewGovernance(s, evt)
    ELSE IF evt.name = "NewRelease" THEN OnNewRelease(s, evt)
    ELSE IF evt.name \in CreationEvents THEN OnNewVault(s, evt)
    ELSE IF evt.name = "VaultTagged" THEN OnVaultTagged(s, evt)
    ELSE OnOther(s, evt)

\* process_events, the store into self.names; ok tells whether vault.symbol() answered
ApplyName(s, evt, ok) ==
    IF ok
    THEN [s |-> [s EXCEPT !.names = Put(@, evt.vault, DisplayName(evt))], err |-> NoError]
    ELSE [s |-> s, err |-> "CallError"]

\* ------------------------------------------------------- VaultV2.describe
VAULT_VIEWS_SCALED ==
    {"totalAssets", "maxAvailableShares", "pricePerShare", "debtOutstanding",
     "creditAvailable", "expectedReturn", "totalSupply", "availableDepositLimit",
     "depositLimit", "totalDebt", "debtLimit"}

\* the zero-argument uint256 views a vault ABI may list (self._views)
ViewNames == {"totalAssets", "pricePerShare", "lockedProfit", "managementFee"}
RawValues == {5000000, 1234567}
Decimals == {0, 6}
Prices == {1, 3}
StrategyNames == {"s1", "s2"}
MulticallOutcomes == {"ok", "ValueError", "ConnectionError"}

NoVault == [decimals |-> 0, views |-> {}, raw |-> EmptyMap, strategies |-> {},
            price |-> 0, multicall |-> "none"]
NoInfo == [err |-> "NotCalled", info |-> EmptyMap]

\* a Python number, kept as a fraction
Num(n) == [num |-> n, den |-> 1]
Div(a, n) == [num |-> a.num, den |-> a.den * n]
Mul(a, b) == [num |-> a.num * b.num, den |-> a.den * b.den]

\* yearn.mutlicall.fetch_multicall: every view in one round trip, or an error
fetch_multicall(v) ==
    IF v.multicall = "ok"
    THEN [err |-> NoError, results |-> [n \in v.views |-> Num(v.raw[n])]]
    ELSE [err |-> v.multicall, results |-> EmptyMap]

\* strat.describe() of the strategy collaborator
StrategyDescribe(n) == "describe(" \o n \o ")"

\* uniswap.token_price(self.vault.token())
token_price(v) == Num(v.price)

\* every view is divided by the scale
ScaleViewAll(n, x, scale) == Div(x, scale)

\* if name in VAULT_VIEWS_SCALED: info[name] /= scale
ScaleView(n, x, scale) == IF n \in VAULT_VIEWS_SCALED THEN Div(x, scale) ELSE x

\* a handler that catches nothing
CaughtNever(err) == FALSE

\* except ValueError
Caught(err) == err = "ValueError"

\* VaultV2.describe: the mapping returned, or the exception that leaves it
describe(v) ==
    LET scale == 10 ^ v.decimals
        m == fetch_multicall(v)
    IN IF m.err # NoError /\ ~Caught(m.err)
       THEN [err |-> m.err, info |-> EmptyMap]
       ELSE LET views == IF m.err = NoError
                         THEN [n \in DOMAIN m.results |-> ScaleView(n, m.results[n], scale)]
                         ELSE EmptyMap
                strats == Put(views, "strategies",
                              [n \in v.strategies |-> StrategyDescribe(n)])
                priced == Put(strats, "token price", token_price(v))
            IN [err |-> NoError,
                info |-> IF "totalAssets" \in DOMAIN priced
                         THEN Put(priced, "tvl",
                                  Mul(priced["token price"], priced["totalAssets"]))
                         ELSE priced]

\* ------------------------------------------------------------------ Init
NoObservation == [vaults |-> {}, names |-> {}, during |-> FALSE, seen |-> FALSE]

\* nothing constructed yet: the chain tip at which Registry() is called
Fresh ==
    /\ height \in {height_buffer, height_buffer + 1}
    /\ pc = "start"
    /\ wpc = "notstarted"
    /\ governance = None
    /\ api_versions = EmptyMap
    /\ vaults = EmptyMap
    /\ names = EmptyMap
    /\ tags = EmptyMap
    /\ last_block = NoBlock
    /\ events = <<>>
    /\ batch = <<>>
    /\ idx = 1
    /\ mid = FALSE
    /\ block = NoBlock
    /\ from_block = NoBlock
    /\ error = NoError
    /\ applied = <<>>
    /\ observed = NoObservation
    /\ dvault = NoVault
    /\ info = NoInfo

Init == (DenseChain(chain) \/ SparseChain(chain)) /\ Fresh

\* --------------------------------------------------------------- actions
Running == pc = "init" \/ wpc = "processing"

\* an exception leaves process_events: __init__ fails or the watch thread dies
Raise(err) ==
    /\ error' = err
    /\ IF pc = "init"
       THEN pc' = "failed" /\ wpc' = wpc
       ELSE pc' = pc /\ wpc' = "dead"

SetTables(s) ==
    /\ governance' = s.governance
    /\ api_versions' = s.api_versions
    /\ vaults' = s.vaults
    /\ names' = s.names
    /\ tags' = s.tags

\* a new block is mined on the chain, until one block after the chain's last log
\* is confirmed; the Registry is constructed at the initial tip
Mine ==
    /\ height < MaxHeight
    /\ height <= LastConfirmation(chain)
    /\ pc # "start"
    /\ height' = height + 1
    /\ UNCHANGED <<chain, pc, wpc, tables, last_block, events, batch, idx, mid, block,
                   from_block, error, applied, observed, dvault, info>>

\* the thread is started before process_events(self.events) is called
InitStartThreadFirst ==
    /\ pc = "start"
    /\ pc' = "init"
    /\ wpc' = "waiting"
    /\ SetTables(EmptyRegistry)
    /\ events' = fetch_events(chain, height)
    /\ batch' = events'
    /\ idx' = 1
    /\ UNCHANGED <<chain, height, last_block, mid, block, from_block, error, applied,
                   observed, dvault, info>>

\* Registry.__init__ up to the call of process_events(self.events)
InitStart ==
    /\ pc = "start"
    /\ pc' = "init"
    /\ SetTables(EmptyRegistry)
    /\ events' = fetch_events(chain, height)
    /\ batch' = events'
    /\ idx' = 1
    /\ UNCHANGED <<chain, height, wpc, last_block, mid, block, from_block, error, applied,
                   observed, dvault, info>>

\* process_events: the loop body for batch[idx], up to the store into self.vaults
ProcessEvent ==
    /\ Running
    /\ ~mid
    /\ idx <= Len(batch)
    /\ LET r == ApplyHead(Registry, batch[idx])
       IN /\ SetTables(r.s)
          /\ IF r.err # NoError
             THEN Raise(r.err) /\ UNCHANGED <<idx, mid, applied>>
             ELSE /\ mid' = r.mid
                  /\ idx' = IF r.mid THEN idx ELSE idx + 1
                  /\ applied' = IF r.mid THEN applied ELSE Append(applied, EventId(batch[idx]))
                  /\ UNCHANGED <<pc, wpc, error>>
    /\ UNCHANGED <<chain, height, last_block, events, batch, block, from_block, observed, dvault, info>>

\* process_events: the store into self.names that ends a vault creation
ProcessName ==
    /\ Running
    /\ mid
    /\ \E ok \in BOOLEAN :
          LET r == ApplyName(Registry, batch[idx], ok)
          IN /\ SetTables(r.s)
             /\ IF r.err # NoError
                THEN Raise(r.err) /\ UNCHANGED <<idx, mid, applied>>
                ELSE /\ mid' = FALSE
                     /\ idx' = idx + 1
                     /\ applied' = Append(applied, EventId(batch[idx]))
                     /\ UNCHANGED <<pc, wpc, error>>
    /\ UNCHANGED <<chain, height, last_block, events, batch, block, from_block, observed, dvault, info>>

\* the thread is started before the cursor is read off the last event
InitFinishThreadFirst ==
    /\ pc = "init"
    /\ ~mid
    /\ idx > Len(batch)
    /\ wpc' = "waiting"
    /\ IF events = <<>>
       THEN /\ error' = "IndexError"
            /\ pc' = "failed"
            /\ UNCHANGED last_block
       ELSE /\ last_block' = events[Len(events)].block_number
            /\ pc' = "done"
            /\ UNCHANGED error
    /\ UNCHANGED <<chain, height, tables, events, batch, idx, mid, block, from_block,
                   applied, observed, dvault, info>>

\* the cursor is read off the first event
InitFinishFirstEvent ==
    /\ pc = "init"
    /\ ~mid
    /\ idx > Len(batch)
    /\ IF events = <<>>
       THEN /\ error' = "IndexError"
            /\ pc' = "failed"
            /\ UNCHANGED <<last_block, wpc>>
       ELSE /\ last_block' = events[1].block_number
            /\ wpc' = "waiting"
            /\ pc' = "done"
            /\ UNCHANGED error
    /\ UNCHANGED <<chain, height, tables, events, batch, idx, mid, block, from_block,
                   applied, observed, dvault, info>>

\* Registry.__init__ after process_events returned: the cursor and the thread
InitFinish ==
    /\ pc = "init"
    /\ ~mid
    /\ idx > Len(batch)
    /\ IF events = <<>>
       THEN /\ error' = "IndexError"
            /\ pc' = "failed"
            /\ UNCHANGED <<last_block, wpc>>
       ELSE /\ last_block' = events[Len(events)].block_number
            /\ wpc' = "waiting"
            /\ pc' = "done"
            /\ UNCHANGED error
    /\ UNCHANGED <<chain, height, tables, events, batch, idx, mid, block, from_block,
                   applied, observed, dvault, info>>

\* the drained range starts one block too late
WatchNextSkipsBlock ==
    /\ wpc = "waiting"
    /\ height - height_buffer # block
    /\ block' = height - height_buffer
    /\ from_block' = last_block + 2
    /\ batch' = get_logs(chain, from_block', block')
    /\ idx' = 1
    /\ wpc' = "processing"
    /\ UNCHANGED <<chain, height, pc, tables, last_block, events, mid, error, applied,
                   observed, dvault, info>>

\* watch_events: chain.new_blocks yields the block height_buffer below the tip,
\* and the logs of last_block + 1 .. block.number are fetched and decoded
WatchNext ==
    /\ wpc = "waiting"
    /\ height - height_buffer # block
    /\ block' = height - height_buffer
    /\ from_block' = last_block + 1
    /\ batch' = get_logs(chain, from_block', block')
    /\ idx' = 1
    /\ wpc' = "processing"
    /\ UNCHANGED <<chain, height, pc, tables, last_block, events, mid, error, applied, observed, dvault, info>>

\* the cursor is moved to the last drained event, as __init__ does
WatchAdvanceToLastEvent ==
    /\ wpc = "processing"
    /\ ~mid
    /\ idx > Len(batch)
    /\ last_block' = IF batch = <<>> THEN last_block ELSE batch[Len(batch)].block_number
    /\ wpc' = "waiting"
    /\ UNCHANGED <<chain, height, pc, tables, events, batch, idx, mid, block, from_block,
                   error, applied, observed, dvault, info>>

\* the loop returns after its first block instead of taking the next one
WatchAdvanceReturns ==
    /\ wpc = "processing"
    /\ ~mid
    /\ idx > Len(batch)
    /\ last_block' = block
    /\ wpc' = "dead"
    /\ UNCHANGED <<chain, height, pc, tables, events, batch, idx, mid, block, from_block,
                   error, applied, observed, dvault, info>>

\* watch_events: self.last_block = block.number
WatchAdvance ==
    /\ wpc = "processing"
    /\ ~mid
    /\ idx > Len(batch)
    /\ last_block' = block
    /\ wpc' = "waiting"
    /\ UNCHANGED <<chain, height, pc, tables, events, batch, idx, mid, block, from_block,
                   error, applied, observed, dvault, info>>

\* a caller that holds the constructed Registry reads its tables
Reader ==
    /\ pc = "done"
    /\ observed' = [vaults |-> DOMAIN vaults, names |-> DOMAIN names,
                    during |-> (wpc = "processing" /\ mid), seen |-> TRUE]
    /\ UNCHANGED <<chain, height, pc, wpc, tables, last_block, events, batch, idx, mid,
                   block, from_block, error, applied, dvault, info>>

Next ==
    \/ Mine
    \/ InitStart
    \/ ProcessEvent
    \/ ProcessName
    \/ InitFinish
    \/ WatchNext
    \/ WatchAdvance
    \/ Reader

Spec == Init /\ [][Next]_vars

\* the histories that leave logs for the watch loop to drain; the watch thread
\* is a daemon thread that the interpreter keeps scheduling:
\* each step of its loop that stays possible is eventually taken
LiveInit == SparseChain(chain) /\ Fresh

LiveSpec ==
    /\ LiveInit
    /\ [][Next]_vars
    /\ WF_vars(WatchNext)
    /\ WF_vars(ProcessEvent)
    /\ WF_vars(ProcessName)
    /\ WF_vars(WatchAdvance)

\* -------------------------------------------- describe on its own inputs
DescribeInit ==
    /\ chain = <<>>
    /\ height = height_buffer
    /\ pc = "start"
    /\ wpc = "notstarted"
    /\ governance = None
    /\ api_versions = EmptyMap
    /\ vaults = EmptyMap
    /\ names = EmptyMap
    /\ tags = EmptyMap
    /\ last_block = NoBlock
    /\ events = <<>>
    /\ batch = <<>>
    /\ idx = 1
    /\ mid = FALSE
    /\ block = NoBlock
    /\ from_block = NoBlock
    /\ error = NoError
    /\ applied = <<>>
    /\ observed = NoObservation
    /\ info = NoInfo
    /\ \E d \in Decimals : \E vs \in SUBSET ViewNames : \E raw \in [vs -> RawValues] :
       \E ss \in SUBSET StrategyNames : \E p \in Prices : \E mc \in MulticallOutcomes :
          dvault = [decimals |-> d, views |-> vs, raw |-> raw, strategies |-> ss,
                    price |-> p, multicall |-> mc]

\* a caller invokes describe() on the vault
Describe ==
    /\ info = NoInfo
    /\ dvault # NoVault
    /\ info' = describe(dvault)
    /\ UNCHANGED <<chain, height, pc, wpc, tables, last_block, events, batch, idx, mid,
                   block, from_block, error, applied, observed, dvault>>

DescribeNext == Describe

DescribeSpec == DescribeInit /\ [][DescribeNext]_vars

\* ------------------------------------------------------------ properties
Last(s) == s[Len(s)]

\* the event process_events is about to handle
Current == batch[idx]

AtEvent == Running /\ ~mid /\ idx <= Len(batch)

Stopped == pc = "failed" \/ wpc = "dead"

\* the whole loop body of process_events for one event, vault.symbol() answering
ApplyEvent(s, evt) ==
    LET h == ApplyHead(s, evt)
    IN IF h.mid THEN ApplyName(h.s, evt, TRUE).s ELSE h.s

\* process_events over a whole list on which no event fails
Fold(s, evts) ==
    LET F[i \in 0..Len(evts)] == IF i = 0 THEN s ELSE ApplyEvent(F[i - 1], evts[i])
    IN F[Len(evts)]

\* C1: the cursor last_block never decreases: every step leaves it greater than
\* or equal to its previous value.
C1_CursorNeverDecreases == [][last_block' >= last_block]_vars

\* C2: no event is applied twice: the events applied by __init__ and by the
\* watch-loop iterations so far are pairwise distinct logs.
C2_NoEventAppliedTwice ==
    \A i \in DOMAIN applied : \A j \in DOMAIN applied : i # j => applied[i] # applied[j]

\* C3: a reader never observes a partially applied event: a read taken while the
\* watch loop is applying a creation event never shows a vault address that is
\* in vaults and not in names.
C3_ReadersSeeWholeEvents == observed.during => observed.vaults \subseteq observed.names

\* C4: a creation event for an address already in vaults is a no-op that raises
\* nothing and leaves every table unchanged, and an entry of vaults or names,
\* once stored, keeps the handle and the name of the first creation.
C4_DuplicateCreationIsNoOp ==
    [][/\ (/\ ProcessEvent
           /\ Current.name \in CreationEvents
           /\ Current.vault \in DOMAIN vaults)
          => /\ tables' = tables
             /\ error' = NoError
             /\ ~mid'
             /\ idx' = idx + 1
       /\ \A a \in DOMAIN vaults : a \in DOMAIN vaults' /\ vaults'[a] = vaults[a]
       /\ \A a \in DOMAIN names : a \in DOMAIN names' /\ names'[a] = names[a]]_vars

\* a second creation event for a stored vault has been handled
C4_Witness ==
    /\ pc = "init"
    /\ idx = 4
    /\ error = NoError
    /\ batch[2].name = "NewVault"
    /\ batch[3].name = "NewVault"
    /\ batch[2].vault = batch[3].vault
    /\ batch[2].api_version # batch[3].api_version
    /\ batch[3].vault \in DOMAIN names

\* C5: a creation event that directly follows the release of its api_version in
\* a batch, once handled, has its vault in vaults and names; a creation event
\* for an unknown address whose api_version has no release raises KeyError (the
\* missing release) and leaves the address out of vaults and names.
C5_ReleaseBeforeVault ==
    /\ \A i \in 1..(Len(batch) - 1) :
          (/\ i + 1 < idx
           /\ batch[i].name = "NewRelease"
           /\ batch[i + 1].name \in CreationEvents
           /\ batch[i + 1].api_version = batch[i].api_version)
          => /\ batch[i + 1].vault \in DOMAIN vaults
             /\ batch[i + 1].vault \in DOMAIN names
    /\ (AtEvent /\ Current.name \in CreationEvents
          /\ Current.vault \notin DOMAIN vaults
          /\ Current.api_version \notin DOMAIN api_versions)
          => ~ENABLED (ProcessEvent /\ error' # "KeyError")
    /\ error = "KeyError"
          => /\ Stopped
             /\ Current.name \in CreationEvents
             /\ Current.api_version \notin DOMAIN api_versions
             /\ Current.vault \notin DOMAIN vaults
             /\ Current.vault \notin DOMAIN names

\* one creation succeeded after its release and a later one failed, no release
C5_Witness ==
    /\ error = "KeyError"
    /\ idx = 3
    /\ batch[1].name = "NewRelease"
    /\ batch[2].name = "NewVault"
    /\ batch[2].vault \in DOMAIN names
    /\ batch[3].vault \notin DOMAIN vaults

\* C6: an event of an unknown kind raises UnknownEvent out of process_events:
\* the loop never passes over one, the caller stops with no later event applied,
\* and a watch-loop iteration that raised leaves the cursor where it was when
\* the iteration began.
C6_UnknownEventStops ==
    /\ \A j \in 1..Len(batch) : j < idx => batch[j].name \in KnownEvents
    /\ (AtEvent /\ Current.name \notin KnownEvents)
          => ~ENABLED (ProcessEvent /\ error' # "UnknownEvent")
    /\ error = "UnknownEvent" => idx <= Len(batch) /\ Current.name \notin KnownEvents
    /\ error \in {"UnknownEvent", "KeyError"}
          => /\ Stopped
             /\ ~ENABLED ProcessEvent
             /\ ~ENABLED ProcessName
             /\ ~ENABLED InitFinish
             /\ ~ENABLED WatchAdvance
             /\ ~ENABLED WatchNext
    /\ wpc = "dead" => last_block = from_block - 1

\* the watch thread died on an unknown event drained from a live range
C6_Witness ==
    /\ wpc = "dead"
    /\ error = "UnknownEvent"
    /\ Current.block_number > Last(events).block_number
    /\ last_block = Last(events).block_number

\* C7: between two watch-loop iterations the cursor equals the confirmed
\* height H of the iteration that just completed, whatever the range held.
C7_CursorIsConfirmedHeight ==
    (wpc = "waiting" /\ block # NoBlock) => last_block = block

\* an iteration that drained an empty range moved the cursor past the last event
C7_Witness ==
    /\ wpc = "waiting"
    /\ block # NoBlock
    /\ batch = <<>>
    /\ last_block = block
    /\ block > Last(events).block_number

\* C8: when __init__ has failed the watch thread has not been started, no
\* reader has got hold of the Registry, and nothing reads or changes it.
C8_FailedInitExposesNothing ==
    pc = "failed"
       => /\ wpc = "notstarted"
          /\ ~observed.seen
          /\ ~ENABLED Reader
          /\ ~ENABLED ProcessEvent
          /\ ~ENABLED ProcessName
          /\ ~ENABLED WatchNext
          /\ ~ENABLED WatchAdvance

\* __init__ failed after it had stored a vault
C8_Witness ==
    /\ pc = "failed"
    /\ error = "UnknownEvent"
    /\ DOMAIN vaults # {}

\* C9: right after a successful __init__ the historical list is not empty, the
\* cursor is the block of its last event, every historical event has been
\* applied once, in order, and the tables are the fold of the list over the
\* empty tables; with an empty list __init__ fails and sets no cursor.
C9_InitIsFoldOfHistory ==
    /\ (pc = "done" /\ block = NoBlock)
          => /\ events # <<>>
             /\ last_block = Last(events).block_number
             /\ applied = [i \in 1..Len(events) |-> EventId(events[i])]
             /\ Registry = Fold(EmptyRegistry, events)
    /\ (pc \in {"done", "failed"} /\ events = <<>>)
          => /\ pc = "failed"
             /\ error = "IndexError"
             /\ last_block = NoBlock

\* __init__ succeeded on three events, one of them a creation
C9_Witness ==
    /\ pc = "done"
    /\ block = NoBlock
    /\ Len(events) = 3
    /\ DOMAIN names # {}
    /\ last_block = 3

\* the historical events are [NewRelease("0.3.0", tX), NewVault("0.3.0", 0xA)]
\* and __init__ has returned
EndToEnd ==
    /\ pc = "done"
    /\ block = NoBlock
    /\ Len(events) = 2
    /\ events[1].name = "NewRelease"
    /\ events[1].api_version = "0.3.0"
    /\ events[1].template = "tX"
    /\ events[2].name = "NewVault"
    /\ events[2].api_version = "0.3.0"
    /\ events[2].vault = "0xA"

\* C10 as stated: after the end-to-end scenario vaults has the one key and its
\* name is "<symbol> v0.3.0"; every stored name is "<symbol> v<apiVersion>".
C10_NameHasVersionPrefix ==
    /\ EndToEnd => /\ DOMAIN vaults = {"0xA"}
                   /\ names["0xA"] = symbol("0xA") \o " v0.3.0"
    /\ \A a \in DOMAIN names :
          \E v \in Versions : /\ vaults[a].name = "Vault v" \o v
                              /\ names[a] = symbol(a) \o " v" \o v

\* C10 amended: after the end-to-end scenario vaults has the one key and its
\* name is "<symbol> 0.3.0"; every stored name is "<symbol> <apiVersion>", the
\* api_version being that of the creation event the vault's handle was made from.
C10_NameIsSymbolAndVersion ==
    /\ EndToEnd => /\ DOMAIN vaults = {"0xA"}
                   /\ names["0xA"] = symbol("0xA") \o " 0.3.0"
    /\ \A a \in DOMAIN names :
          \E v \in Versions : /\ vaults[a].name = "Vault v" \o v
                              /\ names[a] = symbol(a) \o " " \o v

\* the end-to-end scenario has run
C10_Witness == EndToEnd /\ "0xA" \in DOMAIN names

\* the log of the chain that has the given identity
EventOf(id) == CHOOSE e \in {chain[i] : i \in DOMAIN chain} : EventId(e) = id

\* the positions in applied of the VaultTagged events for address a
TagApplications(a) ==
    {i \in DOMAIN applied : /\ EventOf(applied[i]).name = "VaultTagged"
                            /\ EventOf(applied[i]).vault = a}

Max(S) == CHOOSE x \in S : \A y \in S : y <= x

\* C11: tags are last-write-wins: an address has a tag exactly when a
\* VaultTagged event for it has been applied, and the tag is that of the most
\* recently applied one.
C11_TagsLastWriteWins ==
    \A a \in Addresses :
        IF TagApplications(a) = {}
        THEN a \notin DOMAIN tags
        ELSE /\ a \in DOMAIN tags
             /\ tags[a] = EventOf(applied[Max(TagApplications(a))]).tag

\* two VaultTagged events with different tags have been applied for one address
C11_Witness ==
    \E a \in Addresses :
        \E i \in TagApplications(a) : \E j \in TagApplications(a) :
            /\ i < j
            /\ j = Max(TagApplications(a))
            /\ EventOf(applied[i]).tag # EventOf(applied[j]).tag
            /\ tags[a] = EventOf(applied[j]).tag

\* C12: the watch thread exists only once __init__ has applied every historical
\* event, in order, and has set the cursor; from then on the tables and the
\* cursor are changed by steps of the watch loop only.
C12_SingleWriter ==
    /\ [](wpc # "notstarted"
            => /\ pc = "done"
               /\ last_block # NoBlock
               /\ Len(applied) >= Len(events)
               /\ \A i \in DOMAIN events : applied[i] = EventId(events[i]))
    /\ [][(wpc # "notstarted" /\ (tables' # tables \/ last_block' # last_block))
            => /\ wpc = "processing"
               /\ pc = "done"
               /\ (ProcessEvent \/ ProcessName \/ WatchAdvance)]_vars

\* the watch loop has stored a vault drained from a live range
C12_Witness ==
    /\ wpc = "processing"
    /\ mid
    /\ Current.block_number > Last(events).block_number

Returned == info # NoInfo /\ info.err = NoError

\* C13 as stated: whatever error the batch fetch raises, describe returns a
\* mapping whose strategies key holds every strategy's describe output and that
\* has neither tvl nor totalAssets.
C13_AnyBatchErrorDegrades ==
    (info # NoInfo /\ dvault.multicall # "ok")
       => /\ info.err = NoError
          /\ "strategies" \in DOMAIN info.info
          /\ info.info["strategies"] = [n \in dvault.strategies |-> StrategyDescribe(n)]
          /\ "tvl" \notin DOMAIN info.info
          /\ "totalAssets" \notin DOMAIN info.info

\* C13 amended: when the batch fetch raises ValueError, describe returns a
\* mapping whose strategies key holds every strategy's describe output and that
\* has neither tvl nor totalAssets.
C13_ValueErrorDegrades ==
    (info # NoInfo /\ dvault.multicall = "ValueError")
       => /\ info.err = NoError
          /\ "strategies" \in DOMAIN info.info
          /\ info.info["strategies"] = [n \in dvault.strategies |-> StrategyDescribe(n)]
          /\ "tvl" \notin DOMAIN info.info
          /\ "totalAssets" \notin DOMAIN info.info

\* describe returned after a ValueError, for a vault with totalAssets and strategies
C13_Witness ==
    /\ Returned
    /\ dvault.multicall = "ValueError"
    /\ "totalAssets" \in dvault.views
    /\ dvault.strategies = StrategyNames

\* C14: when the batch fetch answered, a view of VAULT_VIEWS_SCALED is reported
\* as raw / 10^decimals (decimals 6 and raw 5000000 give 5) and any other view
\* as its raw value; in every returned mapping tvl is there exactly when
\* totalAssets is, and is the price times the reported totalAssets.
C14_ScaledViews ==
    Returned =>
       /\ dvault.multicall = "ok"
             => \A n \in dvault.views :
                   /\ n \in DOMAIN info.info
                   /\ info.info[n] = IF n \in VAULT_VIEWS_SCALED
                                     THEN [num |-> dvault.raw[n], den |-> 10 ^ dvault.decimals]
                                     ELSE [num |-> dvault.raw[n], den |-> 1]
                   /\ (n = "totalAssets" /\ dvault.decimals = 6 /\ dvault.raw[n] = 5000000)
                         => info.info[n].num = 5 * info.info[n].den
       /\ "tvl" \in DOMAIN info.info <=> "totalAssets" \in DOMAIN info.info
       /\ "tvl" \in DOMAIN info.info
             => /\ info.info["tvl"].num = dvault.price * info.info["totalAssets"].num
                /\ info.info["tvl"].den = info.info["totalAssets"].den

\* describe returned 5 for totalAssets next to an unscaled view
C14_Witness ==
    /\ Returned
    /\ dvault.multicall = "ok"
    /\ dvault.decimals = 6
    /\ "totalAssets" \in dvault.views
    /\ dvault.raw["totalAssets"] = 5000000
    /\ "lockedProfit" \in dvault.views
    /\ info.info["lockedProfit"].den = 1
    /\ "tvl" \in DOMAIN info.info

\* C15: events are applied in the chain's order over the Registry's lifetime:
\* an event applied later never has a smaller block number than one applied
\* earlier.
C15_AppliedInBlockOrder ==
    \A i \in DOMAIN applied : \A j \in DOMAIN applied :
        i < j => applied[i][1] <= applied[j][1]

AppliedIds == {applied[i] : i \in DOMAIN applied}

\* C16: between two watch-loop iterations every log of the chain whose block
\* number is at most the cursor has been applied.
C16_CursorCoversAppliedRange ==
    wpc = "waiting"
       => \A i \in DOMAIN chain :
             chain[i].block_number <= last_block => EventId(chain[i]) \in AppliedIds

\* the watch loop drained a log from a live range, every log applied once
C16_Witness ==
    /\ wpc = "waiting"
    /\ block # NoBlock
    /\ Len(batch) > 0
    /\ Len(applied) = Len(chain)
    /\ last_block = Last(chain).block_number
    /\ Last(events).block_number < last_block

\* g differs from f at most in its entry for k
OnlyEntry(f, g, k) ==
    /\ (DOMAIN g) \ {k} = (DOMAIN f) \ {k}
    /\ \A x \in (DOMAIN f) \ {k} : g[x] = f[x]

\* C17: each event kind changes only its own part of the tables: NewGovernance
\* only governance, NewRelease only the api_versions entry of its api_version,
\* VaultTagged only the tags entry of its address, known vault or not, a
\* creation only the vaults and names entries of its address; applying an
\* event never changes the cursor, which only __init__ and the end of a
\* watch-loop iteration write.
C17_FrameOfEachEvent ==
    [][/\ (ProcessEvent /\ Current.name = "NewGovernance")
             => /\ governance' = Current.governance
                /\ UNCHANGED <<api_versions, vaults, names, tags>>
       /\ (ProcessEvent /\ Current.name = "NewRelease")
             => /\ Current.api_version \in DOMAIN api_versions'
                /\ api_versions'[Current.api_version] = Contract(Current.template)
                /\ OnlyEntry(api_versions, api_versions', Current.api_version)
                /\ UNCHANGED <<governance, vaults, names, tags>>
       /\ (ProcessEvent /\ Current.name = "VaultTagged")
             => /\ Current.vault \in DOMAIN tags'
                /\ tags'[Current.vault] = Current.tag
                /\ OnlyEntry(tags, tags', Current.vault)
                /\ UNCHANGED <<governance, api_versions, vaults, names>>
       /\ (ProcessEvent /\ Current.name \in CreationEvents)
             => /\ OnlyEntry(vaults, vaults', Current.vault)
                /\ UNCHANGED <<governance, api_versions, names, tags>>
       /\ ProcessName
             => /\ Current.name \in CreationEvents
                /\ OnlyEntry(names, names', Current.vault)
                /\ UNCHANGED <<governance, api_versions, vaults, tags>>
       /\ (ProcessEvent /\ Current.name \notin KnownEvents) => UNCHANGED tables
       /\ (ProcessEvent \/ ProcessName) => last_block' = last_block
       /\ last_block' # last_block => (InitFinish \/ WatchAdvance)]_vars

\* a tag has been stored for an address that is not a known vault, next to a vault
C17_Witness ==
    /\ "0xB" \in DOMAIN tags
    /\ "0xB" \notin DOMAIN vaults
    /\ "0xA" \in DOMAIN names

\* C18: a release is never removed: an api_version that has an entry keeps one
\* in every later state; a NewRelease for it replaces the entry by the handle
\* of the new template and leaves the handle and the name of every vault as
\* they were.
C18_ReleasesOnlyGrow ==
    [][/\ \A v \in DOMAIN api_versions : v \in DOMAIN api_versions'
       /\ (ProcessEvent /\ Current.name = "NewRelease")
             => /\ api_versions'[Current.api_version] = Contract(Current.template)
                /\ vaults' = vaults
                /\ names' = names]_vars

\* a release was replaced by another template after a vault was created under it
C18_Witness ==
    /\ "0.3.0" \in DOMAIN api_versions
    /\ api_versions["0.3.0"].address = "tY"
    /\ "0xA" \in DOMAIN names
    /\ vaults["0xA"].name = "Vault v0.3.0"
    /\ vaults["0xA"].abi = "abi(tX)"

\* C19: between event applications the key sets of vaults and names are equal:
\* whenever process_events is not in the middle of an event, whether the last
\* application returned normally or raised, an address is a key of vaults if
\* and only if it is a key of names.
C19_KeySetsEqual ==
    ~(Running /\ mid) => DOMAIN vaults = DOMAIN names

\* every log of the chain up to block h has been applied
AppliedUpTo(h) ==
    \A i \in DOMAIN chain : chain[i].block_number <= h => EventId(chain[i]) \in AppliedIds

\* C20: under fair scheduling of the watch thread, every confirmed height H the
\* loop takes from the block feed (block, fixed while the range is processed)
\* leads to the cursor being H with every log up to H applied, unless an
\* application raises; the loop leaves its cycle of waiting and processing only
\* by an application error.
C20_WatchLoopLive ==
    /\ (wpc = "processing")
          ~> \/ wpc = "waiting" /\ last_block = block /\ AppliedUpTo(block)
             \/ wpc = "dead"
    /\ [][wpc = "processing" => block' = block]_vars
    /\ [](wpc = "dead" => error # NoError)
    /\ [][(wpc = "processing" /\ wpc' # "processing")
             => (wpc' = "waiting" \/ error' # NoError)]_vars
    /\ [][wpc = "waiting" => wpc' \in {"waiting", "processing"}]_vars

\* the loop has caught up with the tip after draining a live log, nothing raised
C20_Witness ==
    /\ wpc = "waiting"
    /\ error = NoError
    /\ block = height - height_buffer
    /\ last_block = block
    /\ Last(events).block_number < Last(chain).block_number
    /\ AppliedUpTo(block)
    /\ block >= Last(chain).block_number

====
